---- MODULE Spec2Model ----
(***************************************************************************)
(* Model of the multi-store registry of shopify-mcp (class StoreRegistry).  *)
(*                                                                         *)
(* Strings that the code inspects character by character (aliases) are     *)
(* sequences of one-character strings, so that toLowerCase is computed.    *)
(* A value of JavaScript type  T | undefined  or  T | null  is a sequence  *)
(* of length at most one: <<>> is undefined/null, <<v>> is the value v.    *)
(***************************************************************************)
EXTENDS Integers, Sequences, FiniteSets, TLC

\* ------------------------------------------------------------------ bounds
\* Number of GraphQLClient objects the model lets the registry construct.
MaxClients == 3

\* ------------------------------------------------------------------ inputs
\* Alias strings handed to the registry: the empty string, one-letter and
\* two-letter aliases in several letter-casings.
Aliases ==
  { <<>>, <<"a">>, <<"A">>, <<"a", "B">>, <<"A", "b">> }

\* An optional alias argument (alias?: string): undefined or a string.
AliasArgs == { <<>> } \cup { <<a>> : a \in Aliases }

\* Store configurations handed to register (StoreConfig, apiVersion optional).
StoreConfigs ==
  { [domain |-> "d1.myshopify.com", accessToken |-> "shpat_1", apiVersion |-> <<>>],
    [domain |-> "d2.myshopify.com", accessToken |-> "shpat_2", apiVersion |-> <<"2025-01">>],
    [domain |-> "d1.myshopify.com", accessToken |-> "shpat_2", apiVersion |-> <<"">>] }

DEFAULT_API_VERSION == "2024-01"

\* ------------------------------------------------------------------ state
VARIABLES
  stores,             \* Map<string, StoreConfig>
  clients,            \* Map<string, GraphQLClient>
  defaultStoreAlias,  \* string | null
  nextClient,         \* number of GraphQLClient objects constructed so far (object identity)
  ret,                \* the last registry call and its outcome
  lastResolved,       \* history: key -> id of the client last returned for that resolved
                      \*          key since the key's last register (0: none)
  lastForArg,         \* history: key -> id of the client last returned by getClient(a)
                      \*          with an explicit argument a that lowercases to key (0: none)
  staleArg,           \* history: keys registered again since that last getClient(a)
  options,            \* LoadConfigOptions parsed from process.argv
  environ,            \* process.env: the three variables loadConfig reads
  files,              \* the file system: absolute path -> content
  pc,                 \* where the process (index.ts) is
  handlers            \* the tool-handler invocations in flight

regVars == <<stores, clients, defaultStoreAlias>>
histVars == <<lastResolved, lastForArg, staleArg>>
procVars == <<options, environ, files, pc, handlers>>
vars == <<stores, clients, defaultStoreAlias, nextClient, ret, lastResolved, lastForArg, staleArg,
          options, environ, files, pc, handlers>>

\* ------------------------------------------------------------------ strings
\* String.prototype.toLowerCase on one character of the model's alphabet.
LowerChar(c) ==
  CASE c = "A" -> "a"
    [] c = "B" -> "b"
    [] OTHER -> c

\* String.prototype.toLowerCase.
ToLowerCase(s) == [i \in DOMAIN s |-> LowerChar(s[i])]

\* JavaScript truthiness of a string | undefined | null: neither absent nor "".
Truthy(opt) == opt # <<>> /\ opt[1] # <<>>

\* The same test for a string the code only copies and compares whole (a
\* domain, a token, an API version), which the model keeps as one TLA+ string.
TruthyText(opt) == opt # <<>> /\ opt[1] # ""

Keys == { ToLowerCase(a) : a \in Aliases }

\* ------------------------------------------------------------------ Map
\* A Map<string, V> is a function from its keys to its values.  The order in
\* which a Map iterates (insertion order) is not kept: the registry reads it
\* only to print the aliases and to take the one key of a one-entry map.

\* Map.prototype.has
MapHas(m, k) == k \in DOMAIN m

\* Map.prototype.get: <<>> (undefined) when absent
MapGet(m, k) == IF k \in DOMAIN m THEN << m[k] >> ELSE <<>>

\* Map.prototype.set
MapSet(m, k, v) == [x \in DOMAIN m \cup {k} |-> IF x = k THEN v ELSE m[x]]

\* Map.prototype.delete
MapDelete(m, k) == [x \in DOMAIN m \ {k} |-> m[x]]

\* Array.from(map.keys()), as the set of its elements
MapKeys(m) == DOMAIN m

\* ------------------------------------------------------------------ registry queries
\* listAliases(): string[]
listAliases == MapKeys(stores)

\* listStores(): StoreInfo[]
listStores ==
  { [alias |-> alias, domain |-> stores[alias].domain] : alias \in DOMAIN stores }

\* get size(): number
size == Cardinality(DOMAIN stores)

\* hasStore(alias): boolean
hasStore(alias) == MapHas(stores, ToLowerCase(alias))

\* getDefaultAlias(): string | null
getDefaultAlias ==
  IF Truthy(defaultStoreAlias) THEN defaultStoreAlias
  ELSE IF size = 1 THEN << CHOOSE k \in MapKeys(stores) : TRUE >>
  ELSE <<>>

\* The two messages StoreRegistry throws, named as the specification names them.
NotFoundError == "NotFoundError"
NoDefaultError == "NoDefaultError"

Ok(v) == [status |-> "ok", value |-> v]
Throw(e) == [status |-> e]

\* private resolveAlias(alias?: string): string
resolveAlias(alias) ==
  IF Truthy(alias)
    THEN LET normalizedAlias == ToLowerCase(alias[1])
         IN IF ~MapHas(stores, normalizedAlias)
              THEN Throw(NotFoundError)
              ELSE Ok(normalizedAlias)
    ELSE LET defaultAlias == getDefaultAlias
         IN IF ~Truthy(defaultAlias)
              THEN Throw(NoDefaultError)
              ELSE Ok(defaultAlias[1])

\* getStoreInfo that reports the alias as the caller wrote it
getStoreInfo_CallerCasing(alias) ==
  LET r == resolveAlias(alias)
  IN IF r.status # "ok" THEN r
     ELSE LET config == MapGet(stores, ToLowerCase(r.value))
          IN IF config = <<>>
               THEN Throw(NotFoundError)
               ELSE Ok([alias |-> IF Truthy(alias) THEN alias[1] ELSE r.value,
                        domain |-> config[1].domain])

\* getStoreInfo(alias?: string): StoreInfo
getStoreInfo(alias) ==
  LET r == resolveAlias(alias)
  IN IF r.status # "ok" THEN r
     ELSE LET resolvedAlias == r.value
              normalizedAlias == ToLowerCase(resolvedAlias)
              config == MapGet(stores, normalizedAlias)
          IN IF config = <<>>
               THEN Throw(NotFoundError)
               ELSE Ok([alias |-> resolvedAlias, domain |-> config[1].domain])

\* new GraphQLClient(url, {headers}): a fresh object (id) bound to url and token
NewGraphQLClient(id, config) ==
  [id |-> id,
   url |-> <<"https://", config.domain, "/admin/api/", config.apiVersion, "/graphql.json">>,
   token |-> config.accessToken]

\* getClient that never looks in the cache
getClientOutcome_NoCache(alias) ==
  LET r == resolveAlias(alias)
  IN IF r.status # "ok" THEN [status |-> r.status, clients |-> clients]
     ELSE LET normalizedAlias == ToLowerCase(r.value)
              config == MapGet(stores, normalizedAlias)
          IN IF config = <<>>
               THEN [status |-> NotFoundError, clients |-> clients]
               ELSE LET client == NewGraphQLClient(nextClient + 1, config[1])
                    IN [status |-> "ok", key |-> normalizedAlias, value |-> client,
                        clients |-> MapSet(clients, normalizedAlias, client)]

\* getClient that builds a client on a miss without writing it to the cache
getClientOutcome_NoWrite(alias) ==
  LET r == resolveAlias(alias)
  IN IF r.status # "ok" THEN [status |-> r.status, clients |-> clients]
     ELSE LET normalizedAlias == ToLowerCase(r.value)
              cachedClient == MapGet(clients, normalizedAlias)
              config == MapGet(stores, normalizedAlias)
          IN IF cachedClient # <<>>
               THEN [status |-> "ok", key |-> normalizedAlias,
                     value |-> cachedClient[1], clients |-> clients]
             ELSE IF config = <<>>
               THEN [status |-> NotFoundError, clients |-> clients]
             ELSE [status |-> "ok", key |-> normalizedAlias,
                   value |-> NewGraphQLClient(nextClient + 1, config[1]),
                   clients |-> clients]

\* getClient(alias?: string): the outcome of the call in the current state, and
\* the clients map it leaves.
getClientOutcome(alias) ==
  LET r == resolveAlias(alias)
  IN IF r.status # "ok" THEN [status |-> r.status, clients |-> clients]
     ELSE LET normalizedAlias == ToLowerCase(r.value)
              cachedClient == MapGet(clients, normalizedAlias)
              config == MapGet(stores, normalizedAlias)
          IN IF cachedClient # <<>>
               THEN [status |-> "ok", key |-> normalizedAlias,
                     value |-> cachedClient[1], clients |-> clients]
             ELSE IF config = <<>>
               THEN [status |-> NotFoundError, clients |-> clients]
             ELSE LET client == NewGraphQLClient(nextClient + 1, config[1])
                  IN [status |-> "ok", key |-> normalizedAlias, value |-> client,
                      clients |-> MapSet(clients, normalizedAlias, client)]

\* ------------------------------------------------------------------ registry operations
\* register that leaves the cached client in place
register_NoEvict(alias, config) ==
  LET normalizedAlias == ToLowerCase(alias)
      stored == [domain |-> config.domain,
                 accessToken |-> config.accessToken,
                 apiVersion |-> IF TruthyText(config.apiVersion)
                                  THEN config.apiVersion[1]
                                  ELSE DEFAULT_API_VERSION]
  IN /\ stores' = MapSet(stores, normalizedAlias, stored)
     /\ ret' = [op |-> "register", status |-> "ok"]
     /\ UNCHANGED <<clients, defaultStoreAlias, nextClient>>

\* register that stores the apiVersion as given, leaving it unset when absent
register_NoDefault(alias, config) ==
  LET normalizedAlias == ToLowerCase(alias)
      stored == [domain |-> config.domain,
                 accessToken |-> config.accessToken,
                 apiVersion |-> IF config.apiVersion # <<>> THEN config.apiVersion[1] ELSE ""]
  IN /\ stores' = MapSet(stores, normalizedAlias, stored)
     /\ clients' = MapDelete(clients, normalizedAlias)
     /\ ret' = [op |-> "register", status |-> "ok"]
     /\ UNCHANGED <<defaultStoreAlias, nextClient>>

\* register that stores the entry under the alias as the caller wrote it
register_AsWritten(alias, config) ==
  LET stored == [domain |-> config.domain,
                 accessToken |-> config.accessToken,
                 apiVersion |-> IF TruthyText(config.apiVersion)
                                  THEN config.apiVersion[1]
                                  ELSE DEFAULT_API_VERSION]
  IN /\ stores' = MapSet(stores, alias, stored)
     /\ clients' = MapDelete(clients, alias)
     /\ ret' = [op |-> "register", status |-> "ok"]
     /\ UNCHANGED <<defaultStoreAlias, nextClient>>

\* register that drops every cached client
register_ClearAll(alias, config) ==
  LET normalizedAlias == ToLowerCase(alias)
      stored == [domain |-> config.domain,
                 accessToken |-> config.accessToken,
                 apiVersion |-> IF TruthyText(config.apiVersion)
                                  THEN config.apiVersion[1]
                                  ELSE DEFAULT_API_VERSION]
  IN /\ stores' = MapSet(stores, normalizedAlias, stored)
     /\ clients' = <<>>
     /\ ret' = [op |-> "register", status |-> "ok"]
     /\ UNCHANGED <<defaultStoreAlias, nextClient>>

\* register(alias, config): void
register(alias, config) ==
  LET normalizedAlias == ToLowerCase(alias)
      stored == [domain |-> config.domain,
                 accessToken |-> config.accessToken,
                 apiVersion |-> IF TruthyText(config.apiVersion)
                                  THEN config.apiVersion[1]
                                  ELSE DEFAULT_API_VERSION]
  IN /\ stores' = MapSet(stores, normalizedAlias, stored)
     /\ clients' = MapDelete(clients, normalizedAlias)
     /\ ret' = [op |-> "register", status |-> "ok"]
     /\ UNCHANGED <<defaultStoreAlias, nextClient>>

\* setDefault that looks the alias up as the caller wrote it
setDefault_NoLower(alias) ==
  IF ~MapHas(stores, alias)
    THEN /\ ret' = [op |-> "setDefault", status |-> NotFoundError]
         /\ UNCHANGED <<stores, clients, defaultStoreAlias, nextClient>>
    ELSE /\ defaultStoreAlias' = <<alias>>
         /\ ret' = [op |-> "setDefault", status |-> "ok"]
         /\ UNCHANGED <<stores, clients, nextClient>>

\* setDefault that does not ask whether the store exists
setDefault_Unchecked(alias) ==
  /\ defaultStoreAlias' = <<ToLowerCase(alias)>>
  /\ ret' = [op |-> "setDefault", status |-> "ok"]
  /\ UNCHANGED <<stores, clients, nextClient>>

\* setDefault(alias): void
setDefault(alias) ==
  LET normalizedAlias == ToLowerCase(alias)
  IN IF ~MapHas(stores, normalizedAlias)
       THEN /\ ret' = [op |-> "setDefault", status |-> NotFoundError]
            /\ UNCHANGED <<stores, clients, defaultStoreAlias, nextClient>>
       ELSE /\ defaultStoreAlias' = <<normalizedAlias>>
            /\ ret' = [op |-> "setDefault", status |-> "ok"]
            /\ UNCHANGED <<stores, clients, nextClient>>

\* getClient(alias?: string): GraphQLClient
getClient(alias) ==
  LET out == getClientOutcome(alias)
  IN IF out.status # "ok"
       THEN /\ ret' = [op |-> "getClient", status |-> out.status]
            /\ UNCHANGED <<stores, clients, defaultStoreAlias, nextClient>>
       ELSE /\ out.value.id <= MaxClients
            /\ clients' = out.clients
            /\ nextClient' = IF out.value.id > nextClient THEN out.value.id ELSE nextClient
            /\ ret' = [op |-> "getClient", status |-> "ok",
                       key |-> out.key, value |-> out.value]
            /\ UNCHANGED <<stores, defaultStoreAlias>>

\* ------------------------------------------------------------------ history
\* What a step adds to the record of the clients handed out so far.

\* register(alias): the key starts a new registration, no client handed out in it
RecordRegistration(alias) ==
  lastResolved' = [lastResolved EXCEPT ![ToLowerCase(alias)] = 0]

\* getClient(..) returned: the client is the last one handed out for its key
RecordResolved ==
  lastResolved' = IF ret'.status = "ok"
                    THEN [lastResolved EXCEPT ![ret'.key] = ret'.value.id]
                    ELSE lastResolved

\* register(alias): a client handed out for this argument is now superseded
RecordRegisterArg(alias) ==
  LET k == ToLowerCase(alias)
  IN /\ staleArg' = IF lastForArg[k] # 0 THEN staleArg \cup {k} ELSE staleArg
     /\ UNCHANGED lastForArg

\* getClient(alias) with an explicit argument returned
RecordGetClientArg(alias) ==
  IF ret'.status = "ok" /\ alias # <<>>
    THEN LET k == ToLowerCase(alias[1])
         IN /\ lastForArg' = [lastForArg EXCEPT ![k] = ret'.value.id]
            /\ staleArg' = staleArg \ {k}
    ELSE UNCHANGED <<lastForArg, staleArg>>

\* ------------------------------------------------------------------ specification
Init ==
  /\ stores = <<>>
  /\ clients = <<>>
  /\ defaultStoreAlias = <<>>
  /\ nextClient = 0
  /\ ret = [op |-> "new", status |-> "ok"]
  /\ lastResolved = [k \in Keys |-> 0]
  /\ lastForArg = [k \in Keys |-> 0]
  /\ staleArg = {}
  /\ options = [configPath |-> <<>>, accessToken |-> <<>>, domain |-> <<>>]
  /\ environ = [SHOPIFY_STORES_CONFIG |-> <<>>, SHOPIFY_ACCESS_TOKEN |-> <<>>,
                MYSHOPIFY_DOMAIN |-> <<>>]
  /\ files = <<>>
  /\ pc = "registry"
  /\ handlers = <<>>

\* The registry driven by any sequence of calls.
Register ==
  \E alias \in Aliases, config \in StoreConfigs :
    /\ register(alias, config) /\ RecordRegistration(alias)
    /\ UNCHANGED <<lastForArg, staleArg>> /\ UNCHANGED procVars

SetDefault ==
  \E alias \in Aliases :
    setDefault(alias) /\ UNCHANGED histVars /\ UNCHANGED procVars

GetClient ==
  \E alias \in AliasArgs :
    /\ getClient(alias) /\ RecordResolved
    /\ UNCHANGED <<lastForArg, staleArg>> /\ UNCHANGED procVars

Next == Register \/ SetDefault \/ GetClient

Spec == Init /\ [][Next]_vars

\* The same calls, recording in addition the client last returned for each
\* explicit argument.
RegisterArg ==
  \E alias \in Aliases, config \in StoreConfigs :
    /\ register(alias, config) /\ RecordRegistration(alias) /\ RecordRegisterArg(alias)
    /\ UNCHANGED procVars

GetClientArg ==
  \E alias \in AliasArgs :
    /\ getClient(alias) /\ RecordResolved /\ RecordGetClientArg(alias)
    /\ UNCHANGED procVars

NextArg == RegisterArg \/ SetDefault \/ GetClientArg

SpecArg == Init /\ [][NextArg]_vars

\* ------------------------------------------------------------------ claims
\* The URL and token a client built from a stored configuration carries.
BoundTo(client, config) ==
  client = NewGraphQLClient(client.id, config)

\* C1: an alias registered in one letter-casing is found, under every other
\* letter-casing of it, by hasStore, setDefault, getClient and getStoreInfo, and
\* each of them acts on the one entry stored under its lowercased form.
C1_CaseInsensitive ==
  \A c1 \in Aliases, c2 \in Aliases :
    (ToLowerCase(c1) \in DOMAIN stores /\ ToLowerCase(c2) = ToLowerCase(c1)) =>
      LET k == ToLowerCase(c1)
          c == getClientOutcome(<<c2>>)
      IN /\ hasStore(c2)
         /\ ENABLED (setDefault(c2) /\ ret'.status = "ok" /\ defaultStoreAlias' = <<k>>)
         /\ c.status = "ok" /\ c.key = k /\ BoundTo(c.value, stores[k])
         /\ (k \in DOMAIN clients => c.value = clients[k])
         /\ getStoreInfo(<<c2>>) = Ok([alias |-> k, domain |-> stores[k].domain])

\* C2: a client that getClient(a) returned is not returned again by the next
\* getClient(a) once register has been called with an alias equal to a up to
\* case.
C2_ReRegistrationInvalidates ==
  [][\A k \in Keys :
       (k \in staleArg /\ k \notin staleArg') => lastForArg'[k] # lastForArg[k]]_vars

\* C3: a successful getClient returns the client last returned for the same
\* resolved alias, unless that alias was registered in between.
C3_ClientCaching ==
  [][(ret'.op = "getClient" /\ ret'.status = "ok" /\ lastResolved[ret'.key] # 0)
       => ret'.value.id = lastResolved[ret'.key]]_vars

\* C3 witness: getClient returned a cached client after later clients were made
\* for other stores.
C3_Witness ==
  /\ ret.op = "getClient" /\ ret.status = "ok"
  /\ ret.value.id < nextClient
  /\ Cardinality(DOMAIN stores) >= 2
  /\ defaultStoreAlias # <<>>

\* C4: every cached client belongs to a registered store and was built from the
\* domain, API version and token now stored for it, and so is the client the
\* last getClient returned.
C4_CacheCoherence ==
  /\ DOMAIN clients \subseteq DOMAIN stores
  /\ \A k \in DOMAIN clients : BoundTo(clients[k], stores[k])
  /\ (ret.op = "getClient" /\ ret.status = "ok") => BoundTo(ret.value, stores[ret.key])

\* C4 witness: the only store was registered again after a client had been made
\* for it, and a second client is cached for it.
C4_Witness ==
  /\ Cardinality(DOMAIN stores) = 1
  /\ \E k \in DOMAIN clients : clients[k].id = 2

\* C5: getClient() and getStoreInfo() without an alias fail with NoDefaultError
\* exactly when zero or at least two stores are registered and no default has
\* been set, and succeed otherwise; with zero stores getDefaultAlias() is none.
C5_NoDefaultCondition ==
  LET noDefault == (size = 0 \/ size >= 2) /\ defaultStoreAlias = <<>>
  IN /\ (getClientOutcome(<<>>).status = NoDefaultError) <=> noDefault
     /\ (getStoreInfo(<<>>).status = NoDefaultError) <=> noDefault
     /\ ~noDefault => (getClientOutcome(<<>>).status = "ok" /\ getStoreInfo(<<>>).status = "ok")
     /\ size = 0 => getDefaultAlias = <<>>

\* C6: with exactly one store and no default set, getDefaultAlias() is that
\* store's alias and the calls without an alias resolve to that store.
C6_ImplicitDefault ==
  (size = 1 /\ defaultStoreAlias = <<>>) =>
    \A k \in DOMAIN stores :
      /\ getDefaultAlias = <<k>>
      /\ getClientOutcome(<<>>).status = "ok" /\ getClientOutcome(<<>>).key = k
      /\ getStoreInfo(<<>>) = Ok([alias |-> k, domain |-> stores[k].domain])

\* C7: with two or more stores and no default set getDefaultAlias() is none;
\* after a successful setDefault(a) it is the lowercased a and the calls without
\* an alias succeed.
C7_AmbiguousDefault ==
  [][/\ (size >= 2 /\ defaultStoreAlias = <<>>) => getDefaultAlias = <<>>
     /\ \A a \in Aliases :
          (setDefault(a) /\ ret'.status = "ok") =>
            /\ getDefaultAlias' = <<ToLowerCase(a)>>
            /\ getClientOutcome(<<>>)'.status = "ok"
            /\ getStoreInfo(<<>>)'.status = "ok"]_vars

\* C8: setDefault(alias) fails, with NotFoundError, exactly when no store is
\* registered under the lowercased alias, and then changes nothing.
C8_SetDefaultNotFound ==
  [][\A a \in Aliases :
       setDefault(a) =>
         /\ ret'.status \in {"ok", NotFoundError}
         /\ (ret'.status = NotFoundError) <=> (ToLowerCase(a) \notin DOMAIN stores)
         /\ ret'.status = NotFoundError => UNCHANGED regVars]_vars

\* C8 witness: a setDefault failed while stores were registered and a default
\* was set.
C8_Witness ==
  /\ ret.op = "setDefault" /\ ret.status = NotFoundError
  /\ defaultStoreAlias # <<>>
  /\ Cardinality(DOMAIN stores) >= 2

\* C9: getClient and getStoreInfo called with an alias under whose lowercased
\* form no store exists fail with NotFoundError, and no call that supplies an
\* alias fails with NoDefaultError.
C9_DistinctErrors ==
  \A a \in Aliases :
    /\ ToLowerCase(a) \notin DOMAIN stores =>
         /\ getClientOutcome(<<a>>).status = NotFoundError
         /\ getStoreInfo(<<a>>).status = NotFoundError
    /\ getClientOutcome(<<a>>).status # NoDefaultError
    /\ getStoreInfo(<<a>>).status # NoDefaultError

\* C10: getStoreInfo fails exactly as getClient does for the same argument, and
\* otherwise returns the resolved lowercase alias with the domain stored for it.
C10_StoreInfo ==
  \A arg \in AliasArgs :
    LET info == getStoreInfo(arg)
        c == getClientOutcome(arg)
    IN /\ info.status = c.status
       /\ info.status = "ok" =>
            /\ info.value.alias = c.key
            /\ info.value.alias = ToLowerCase(info.value.alias)
            /\ info.value.alias \in DOMAIN stores
            /\ info.value.domain = stores[info.value.alias].domain
            /\ Truthy(arg) => info.value.alias = ToLowerCase(arg[1])

\* C10 witness: a store registered in one casing is asked for in another, a
\* default is set, and some alias is not registered.
C10_Witness ==
  /\ defaultStoreAlias # <<>>
  /\ \E a \in Aliases : a # ToLowerCase(a) /\ getStoreInfo(<<a>>).status = "ok"
  /\ \E a \in Aliases : getStoreInfo(<<a>>).status = NotFoundError

\* ================================================================== configuration loader
\* Strings the loader takes apart (a path, the text of a JSON document) are
\* sequences of tokens; strings it only tests and copies (a domain, a token)
\* are TLA+ strings.

\* The fixed alias of the single-store sources.
DefaultAlias == <<"d", "e", "f", "a", "u", "l", "t">>

\* ------------------------------------------------------------------ JSON documents
\* One entry of "stores": the key as written and the store object, whose
\* fields may be missing (<<>>).
Entry(alias, domain, accessToken, apiVersion) ==
  [alias |-> alias,
   config |-> [domain |-> domain, accessToken |-> accessToken, apiVersion |-> apiVersion]]

\* The JSON documents of the model, by name: "stores" (missing, or the entries
\* in the order Object.entries yields them) and "defaultStore" (optional).
Docs ==
  [two |->
     [stores |-> << << Entry(<<"a">>, <<"d1.myshopify.com">>, <<"shpat_1">>, <<>>),
                       Entry(<<"a", "B">>, <<"d2.myshopify.com">>, <<"shpat_2">>, <<"2025-01">>) >> >>,
      defaultStore |-> << <<"A", "b">> >>],
   one |->
     [stores |-> << << Entry(<<"A">>, <<"d2.myshopify.com">>, <<"shpat_2">>, <<>>) >> >>,
      defaultStore |-> <<>>],
   collide |->
     [stores |-> << << Entry(<<"A">>, <<"d1.myshopify.com">>, <<"shpat_1">>, <<>>),
                       Entry(<<"a">>, <<"d2.myshopify.com">>, <<"shpat_2">>, <<>>) >> >>,
      defaultStore |-> << <<"a">> >>],
   blank |->
     [stores |-> << << Entry(<<>>, <<"d1.myshopify.com">>, <<"shpat_1">>, <<>>),
                       Entry(<<"a">>, <<"d2.myshopify.com">>, <<"shpat_2">>, <<>>) >> >>,
      defaultStore |-> << <<>> >>],
   dangling |->
     [stores |-> << << Entry(<<"a">>, <<"d1.myshopify.com">>, <<"shpat_1">>, <<>>) >> >>,
      defaultStore |-> << <<"a", "B">> >>],
   unnamed |->
     [stores |-> << << Entry(<<"a">>, <<"d1.myshopify.com">>, <<"shpat_1">>, <<>>) >> >>,
      defaultStore |-> << <<>> >>],
   empty |->
     [stores |-> << <<>> >>, defaultStore |-> <<>>],
   emptyDefault |->
     [stores |-> << <<>> >>, defaultStore |-> << <<"a">> >>],
   invalid |->
     [stores |-> << << Entry(<<"a">>, <<"">>, <<>>, <<>>),
                       Entry(<<"a", "B">>, <<"d2.myshopify.com">>, <<"shpat_2">>, <<>>) >> >>,
      defaultStore |-> <<>>],
   noStores |->
     [stores |-> <<>>, defaultStore |-> << <<"a">> >>]]

\* The text of the document named n.
JsonText(n) == <<"{", n, "}">>

\* A text that is no JSON.
Malformed == <<"not valid json">>

\* What readFileSync finds when the path is a directory.
Unreadable == <<"<directory>">>

\* The error kinds of the loader, named as the specification names them.
ParseError == "ParseError"
SchemaError == "SchemaError"
EmptyConfigError == "EmptyConfigError"
ValidationError == "ValidationError"
NoConfigurationError == "NoConfigurationError"
ReadError == "ReadError"

\* JSON.parse(jsonString)
JSONparse(text) ==
  IF Len(text) = 3 /\ text[1] = "{" /\ text[3] = "}" /\ text[2] \in DOMAIN Docs
    THEN Ok(Docs[text[2]])
    ELSE Throw(ParseError)

\* Validation reporting the domain fields only
SchemaIssues_DomainOnly(parsed) ==
  IF parsed.stores = <<>>
    THEN { <<"stores">> }
    ELSE LET entries == parsed.stores[1]
         IN { <<"stores", entries[i].alias, "domain">> :
                i \in { j \in DOMAIN entries : ~TruthyText(entries[j].config.domain) } }

\* ConfigFileSchema.safeParse(parsed).error.errors, as the set of their paths
SchemaIssues(parsed) ==
  IF parsed.stores = <<>>
    THEN { <<"stores">> }
    ELSE LET entries == parsed.stores[1]
         IN { <<"stores", entries[i].alias, "domain">> :
                i \in { j \in DOMAIN entries : ~TruthyText(entries[j].config.domain) } }
            \cup
            { <<"stores", entries[i].alias, "accessToken">> :
                i \in { j \in DOMAIN entries : ~TruthyText(entries[j].config.accessToken) } }

\* ------------------------------------------------------------------ paths
\* String.prototype.endsWith / startsWith on a token
EndsWith(v, tok) == v # <<>> /\ v[Len(v)] = tok
StartsWith(v, tok) == v # <<>> /\ v[1] = tok

\* path.resolve(p), the working directory being /cwd/
PathResolve(p) ==
  IF StartsWith(p, "/") THEN p
  ELSE IF StartsWith(p, "./") THEN <<"/", "cwd/">> \o Tail(p)
  ELSE <<"/", "cwd/">> \o p

\* fs.existsSync(path)
ExistsSync(path) == path \in DOMAIN files

\* ------------------------------------------------------------------ the registry as a value
\* The registry the loader is handed, as a record of its three fields.
Registry == [stores |-> stores, clients |-> clients, defaultStoreAlias |-> defaultStoreAlias]

\* registry.register(alias, config) on the record
registerIn(reg, alias, config) ==
  LET normalizedAlias == ToLowerCase(alias)
      stored == [domain |-> config.domain,
                 accessToken |-> config.accessToken,
                 apiVersion |-> IF TruthyText(config.apiVersion)
                                  THEN config.apiVersion[1]
                                  ELSE DEFAULT_API_VERSION]
  IN [reg EXCEPT !.stores = MapSet(reg.stores, normalizedAlias, stored),
                 !.clients = MapDelete(reg.clients, normalizedAlias)]

\* registry.setDefault(alias) on the record
setDefaultIn(reg, alias) ==
  LET normalizedAlias == ToLowerCase(alias)
  IN IF ~MapHas(reg.stores, normalizedAlias)
       THEN [status |-> NotFoundError, what |-> <<"default store">>, reg |-> reg]
       ELSE [status |-> "ok", reg |-> [reg EXCEPT !.defaultStoreAlias = <<normalizedAlias>>]]

\* for (const [alias, storeConfig] of Object.entries(config.stores)) registry.register(..)
RECURSIVE registerAll(_, _)
registerAll(reg, entries) ==
  IF entries = <<>> THEN reg
  ELSE LET e == Head(entries)
       IN registerAll(
            registerIn(reg, e.alias,
                       [domain |-> e.config.domain[1],
                        accessToken |-> e.config.accessToken[1],
                        apiVersion |-> e.config.apiVersion]),
            Tail(entries))

\* ------------------------------------------------------------------ loader functions
\* Each yields the status the call ends with and the registry it leaves.

\* parseAndRegisterConfig(registry, jsonString, source)
parseAndRegisterConfig(reg, jsonString, source) ==
  LET parsed == JSONparse(jsonString)
  IN IF parsed.status # "ok"
       THEN [status |-> ParseError, what |-> source, reg |-> reg]
     ELSE LET issues == SchemaIssues(parsed.value)
          IN IF issues # {}
               THEN [status |-> SchemaError, what |-> source, paths |-> issues, reg |-> reg]
             ELSE LET config == parsed.value
                      registered == registerAll(reg, config.stores[1])
                      defaulted == IF Truthy(config.defaultStore)
                                     THEN setDefaultIn(registered, config.defaultStore[1])
                                     ELSE [status |-> "ok", reg |-> registered]
                  IN IF defaulted.status # "ok" THEN defaulted
                     ELSE IF Cardinality(DOMAIN defaulted.reg.stores) = 0
                       THEN [status |-> EmptyConfigError, what |-> source, reg |-> defaulted.reg]
                     ELSE [status |-> "ok", reg |-> defaulted.reg]

\* loadFromConfigFile(registry, configPath)
loadFromConfigFile(reg, configPath) ==
  LET absolutePath == PathResolve(configPath)
  IN IF ~ExistsSync(absolutePath)
       THEN [status |-> NotFoundError, what |-> absolutePath, reg |-> reg]
     ELSE IF files[absolutePath] = Unreadable
       THEN [status |-> ReadError, what |-> absolutePath, reg |-> reg]
     ELSE parseAndRegisterConfig(reg, files[absolutePath], <<"config file: ">> \o absolutePath)

\* loadFromStoresConfigEnv deciding by the shape of the value alone
loadFromStoresConfigEnv_ShapeOnly(reg, envValue) ==
  IF EndsWith(envValue, ".json") \/ StartsWith(envValue, "/") \/ StartsWith(envValue, "./")
    THEN loadFromConfigFile(reg, PathResolve(envValue))
    ELSE parseAndRegisterConfig(reg, envValue, <<"SHOPIFY_STORES_CONFIG env var">>)

\* loadFromStoresConfigEnv(registry, envValue)
loadFromStoresConfigEnv(reg, envValue) ==
  IF /\ (EndsWith(envValue, ".json") \/ StartsWith(envValue, "/") \/ StartsWith(envValue, "./"))
     /\ ExistsSync(PathResolve(envValue))
    THEN loadFromConfigFile(reg, PathResolve(envValue))
    ELSE parseAndRegisterConfig(reg, envValue, <<"SHOPIFY_STORES_CONFIG env var">>)

\* The literal string "undefined" as a tokenised string.
UndefinedTokens == <<"undefined">>

\* storesConfigEnv && storesConfigEnv !== "undefined"
HasStoresConfigEnv ==
  /\ Truthy(environ.SHOPIFY_STORES_CONFIG)
  /\ environ.SHOPIFY_STORES_CONFIG[1] # UndefinedTokens

\* hasEnvConfig that only asks for the domain variable to be set
HasEnvConfig_DomainUnchecked ==
  /\ TruthyText(environ.SHOPIFY_ACCESS_TOKEN) /\ environ.SHOPIFY_ACCESS_TOKEN[1] # "undefined"
  /\ environ.MYSHOPIFY_DOMAIN # <<>>

\* hasEnvConfig without the comparison with "undefined"
HasEnvConfig_NoUndefinedCheck ==
  TruthyText(environ.SHOPIFY_ACCESS_TOKEN) /\ TruthyText(environ.MYSHOPIFY_DOMAIN)

\* hasEnvConfig
HasEnvConfig ==
  /\ TruthyText(environ.SHOPIFY_ACCESS_TOKEN) /\ environ.SHOPIFY_ACCESS_TOKEN[1] # "undefined"
  /\ TruthyText(environ.MYSHOPIFY_DOMAIN) /\ environ.MYSHOPIFY_DOMAIN[1] # "undefined"

\* registry.register("default", {domain, accessToken}); registry.setDefault("default")
registerDefaultStore(reg, domain, accessToken) ==
  setDefaultIn(
    registerIn(reg, DefaultAlias,
               [domain |-> domain, accessToken |-> accessToken, apiVersion |-> <<>>]),
    DefaultAlias)

\* loadCliArgs treating a lone flag as no configuration at all
loadCliArgs_NoValidation(reg, opts) ==
  IF TruthyText(opts.accessToken) /\ TruthyText(opts.domain)
    THEN registerDefaultStore(reg, opts.domain[1], opts.accessToken[1])
    ELSE [status |-> NoConfigurationError, what |-> <<"no configuration">>, reg |-> reg]

\* loadCliArgs returning normally when there is no flag
loadCliArgs_Silent(reg, opts) ==
  IF TruthyText(opts.accessToken) /\ TruthyText(opts.domain)
    THEN registerDefaultStore(reg, opts.domain[1], opts.accessToken[1])
  ELSE IF TruthyText(opts.accessToken) \/ TruthyText(opts.domain)
    THEN [status |-> ValidationError, what |-> <<"CLI arguments">>, reg |-> reg]
  ELSE [status |-> "ok", reg |-> reg]

\* loadConfig from the command-line pair on: priority 4 and the two errors
loadCliArgs(reg, opts) ==
  IF TruthyText(opts.accessToken) /\ TruthyText(opts.domain)
    THEN registerDefaultStore(reg, opts.domain[1], opts.accessToken[1])
  ELSE IF TruthyText(opts.accessToken) \/ TruthyText(opts.domain)
    THEN [status |-> ValidationError, what |-> <<"CLI arguments">>, reg |-> reg]
  ELSE [status |-> NoConfigurationError, what |-> <<"no configuration">>, reg |-> reg]

\* loadConfig from the legacy pair on: priority 3, then the command line
loadSingleStore(reg, opts) ==
  IF HasEnvConfig
    THEN registerDefaultStore(reg, environ.MYSHOPIFY_DOMAIN[1], environ.SHOPIFY_ACCESS_TOKEN[1])
    ELSE loadCliArgs(reg, opts)

\* loadConfig consulting the environment variable before the --config path
loadConfig_EnvFirst(reg, opts) ==
  IF HasStoresConfigEnv
    THEN loadFromStoresConfigEnv(reg, environ.SHOPIFY_STORES_CONFIG[1])
  ELSE IF Truthy(opts.configPath)
    THEN loadFromConfigFile(reg, opts.configPath[1])
  ELSE loadSingleStore(reg, opts)

\* loadConfig moving on to the next source when the --config file is missing
loadConfig_FallThrough(reg, opts) ==
  IF Truthy(opts.configPath) /\ ExistsSync(PathResolve(opts.configPath[1]))
    THEN loadFromConfigFile(reg, opts.configPath[1])
  ELSE IF HasStoresConfigEnv
    THEN loadFromStoresConfigEnv(reg, environ.SHOPIFY_STORES_CONFIG[1])
  ELSE loadSingleStore(reg, opts)

\* loadConfig(registry, options)
loadConfig(reg, opts) ==
  IF Truthy(opts.configPath)
    THEN loadFromConfigFile(reg, opts.configPath[1])
  ELSE IF HasStoresConfigEnv
    THEN loadFromStoresConfigEnv(reg, environ.SHOPIFY_STORES_CONFIG[1])
  ELSE loadSingleStore(reg, opts)

\* ------------------------------------------------------------------ process startup
\* Startup going on after a failed load
AfterLoad_Continue(status) == "loaded"

\* Where the process goes after the loader: on, or out with exit code 1.
AfterLoad(status) == IF status = "ok" THEN "loaded" ELSE "exited"

\* What the process reports of the loader's outcome, with its exit code when
\* the loader failed.
Report(out) ==
  LET fields == ((DOMAIN out) \ {"reg"}) \cup {"op"}
                \cup (IF out.status = "ok" THEN {} ELSE {"exitCode"})
  IN [f \in fields |-> CASE f = "op" -> "loadConfig"
                          [] f = "exitCode" -> 1
                          [] OTHER -> out[f]]

\* try { loadConfig(storeRegistry, configOptions) } catch { ...; process.exit(1) }
LoadConfig ==
  /\ pc = "start"
  /\ LET out == loadConfig(Registry, options)
     IN /\ stores' = out.reg.stores
        /\ clients' = out.reg.clients
        /\ defaultStoreAlias' = out.reg.defaultStoreAlias
        /\ ret' = Report(out)
        /\ pc' = AfterLoad(out.status)
  /\ UNCHANGED <<nextClient, options, environ, files, handlers>>
  /\ UNCHANGED histVars

\* The tools are handed the registry and registered with the server.
RegisterTools ==
  /\ pc = "loaded"
  /\ pc' = "registered"
  /\ UNCHANGED <<stores, clients, defaultStoreAlias, nextClient, ret>>
  /\ UNCHANGED <<options, environ, files, handlers>>
  /\ UNCHANGED histVars

\* server.connect(transport)
Connect ==
  /\ pc = "registered"
  /\ pc' = "connected"
  /\ UNCHANGED <<stores, clients, defaultStoreAlias, nextClient, ret>>
  /\ UNCHANGED <<options, environ, files, handlers>>
  /\ UNCHANGED histVars

\* ------------------------------------------------------------------ environments
\* The paths of the model.
ConfPath == <<"conf", ".json">>
EnvPath == <<"./", "env", ".json">>
MissingPath == <<"/", "missing", ".json">>
PlainPath == <<"stores">>

\* The values the command line gives.
ConfigPathArgs == { <<>>, <<ConfPath>>, <<MissingPath>> }
AccessTokenArgs == { <<>>, <<"shpat_cli">> }
DomainArgs == { <<>>, <<"cli.myshopify.com">> }

\* The values the environment gives.
StoresConfigEnvs ==
  { <<>>, <<UndefinedTokens>>, <<EnvPath>>, <<PlainPath>>, <<Malformed>> }
  \cup { <<JsonText(n)>> : n \in {"one", "empty", "emptyDefault", "invalid"} }
AccessTokenEnvs == { <<>>, <<"undefined">>, <<"shpat_env">> }
DomainEnvs == { <<>>, <<"">>, <<"env.myshopify.com">> }

\* What the file system holds: a file at ConfPath, possibly one at EnvPath
\* together with one at PlainPath.
ConfContents == { JsonText(n) : n \in DOMAIN Docs } \cup { Malformed, Unreadable }
FileSystems ==
  { [p \in {PathResolve(ConfPath)} |-> c] : c \in ConfContents }
  \cup { [p \in {PathResolve(ConfPath), PathResolve(EnvPath), PathResolve(PlainPath)} |->
            IF p = PathResolve(ConfPath) THEN c
            ELSE IF p = PathResolve(EnvPath) THEN JsonText("two")
            ELSE JsonText("one")] : c \in ConfContents }

\* A fresh registry in a process about to load its configuration.
InitLoad ==
  /\ stores = <<>>
  /\ clients = <<>>
  /\ defaultStoreAlias = <<>>
  /\ nextClient = 0
  /\ ret = [op |-> "new", status |-> "ok"]
  /\ lastResolved = [k \in Keys |-> 0]
  /\ lastForArg = [k \in Keys |-> 0]
  /\ staleArg = {}
  /\ \E cp \in ConfigPathArgs, at \in AccessTokenArgs, d \in DomainArgs :
       options = [configPath |-> cp, accessToken |-> at, domain |-> d]
  /\ \E sc \in StoresConfigEnvs, at \in AccessTokenEnvs, d \in DomainEnvs :
       environ = [SHOPIFY_STORES_CONFIG |-> sc, SHOPIFY_ACCESS_TOKEN |-> at,
                  MYSHOPIFY_DOMAIN |-> d]
  /\ files \in FileSystems
  /\ pc = "start"
  /\ handlers = <<>>

NextLoad == LoadConfig \/ RegisterTools \/ Connect

SpecLoad == InitLoad /\ [][NextLoad]_vars

\* ================================================================== the loader's claims
\* The stores still registered, as (key, domain, accessToken) triples.
RegisteredTriples ==
  { [key |-> k, domain |-> stores[k].domain, accessToken |-> stores[k].accessToken] :
      k \in DOMAIN stores }

\* The stores a JSON text describes (none when it is no valid configuration).
DocTriples(text) ==
  LET parsed == JSONparse(text)
  IN IF parsed.status # "ok" \/ parsed.value.stores = <<>> THEN {}
     ELSE LET entries == parsed.value.stores[1]
          IN { [key |-> ToLowerCase(entries[i].alias),
                domain |-> entries[i].config.domain[1],
                accessToken |-> entries[i].config.accessToken[1]] :
                 i \in { j \in DOMAIN entries : /\ entries[j].config.domain # <<>>
                                                /\ entries[j].config.accessToken # <<>> } }

\* The stores the file at a path describes.
FileTriples(p) ==
  IF PathResolve(p) \in DOMAIN files THEN DocTriples(files[PathResolve(p)]) ELSE {}

\* The first satisfied source, 1..4 in priority order (0: none).
FirstSource ==
  IF options.configPath # <<>> THEN 1
  ELSE IF /\ environ.SHOPIFY_STORES_CONFIG \notin { <<>>, << <<>> >>, <<UndefinedTokens>> } THEN 2
  ELSE IF /\ environ.SHOPIFY_ACCESS_TOKEN \notin { <<>>, <<"">>, <<"undefined">> }
          /\ environ.MYSHOPIFY_DOMAIN \notin { <<>>, <<"">>, <<"undefined">> } THEN 3
  ELSE IF options.accessToken # <<>> /\ options.domain # <<>> THEN 4
  ELSE 0

\* The stores each source describes.
SourceTriples(n) ==
  CASE n = 1 -> FileTriples(options.configPath[1])
    [] n = 2 -> FileTriples(environ.SHOPIFY_STORES_CONFIG[1])
                \cup DocTriples(environ.SHOPIFY_STORES_CONFIG[1])
    [] n = 3 -> { [key |-> DefaultAlias, domain |-> environ.MYSHOPIFY_DOMAIN[1],
                   accessToken |-> environ.SHOPIFY_ACCESS_TOKEN[1]] }
    [] n = 4 -> { [key |-> DefaultAlias, domain |-> options.domain[1],
                   accessToken |-> options.accessToken[1]] }
    [] OTHER -> {}

\* C11: once loadConfig has run, every registered store is one that the first
\* satisfied source (config path, then multi-store variable, then legacy pair,
\* then command-line pair) describes; no lower-priority source contributes.
C11_SourcePriority ==
  pc # "start" => RegisteredTriples \subseteq SourceTriples(FirstSource)

\* A config path and every environment source are available, the file and the
\* variable describe different stores, and the file's stores are the registry.
C11_Witness ==
  /\ pc = "loaded"
  /\ options.configPath = <<ConfPath>>
  /\ files[PathResolve(ConfPath)] = JsonText("two")
  /\ environ.SHOPIFY_STORES_CONFIG = <<JsonText("one")>>
  /\ HasEnvConfig
  /\ DOMAIN stores = { <<"a">>, <<"a", "b">> }

\* C12: when a config path is supplied and no file is at it, loadConfig fails
\* with NotFoundError naming the path, whatever the other sources hold, and
\* the registry is left without any store.
C12_MissingConfigFile ==
  (/\ pc # "start"
   /\ options.configPath # <<>>
   /\ PathResolve(options.configPath[1]) \notin DOMAIN files)
  => /\ ret.op = "loadConfig"
     /\ ret.status = NotFoundError
     /\ ret.what = PathResolve(options.configPath[1])
     /\ stores = <<>>

\* The path is missing while the environment offers both other sources.
C12_Witness ==
  /\ pc = "exited"
  /\ options.configPath = <<MissingPath>>
  /\ environ.SHOPIFY_STORES_CONFIG = <<JsonText("one")>>
  /\ HasEnvConfig
  /\ ret.status = NotFoundError

\* C13: with no config path, no multi-store variable and no legacy pair, a
\* lone --accessToken or --domain makes loadConfig fail with ValidationError
\* and register nothing; both flags register exactly the store "default",
\* with the flags' values, as the explicit default.
C13_CliArgs ==
  (pc # "start" /\ FirstSource \in {0, 4})
  => /\ ((options.accessToken = <<>>) # (options.domain = <<>>))
          => (ret.op = "loadConfig" /\ ret.status = ValidationError /\ stores = <<>>)
     /\ (options.accessToken # <<>> /\ options.domain # <<>>)
          => /\ ret.op = "loadConfig" /\ ret.status = "ok"
             /\ RegisteredTriples = SourceTriples(4)
             /\ defaultStoreAlias = <<DefaultAlias>>

\* Both flags were the only source and the process went on with "default".
C13_Witness ==
  /\ pc = "loaded"
  /\ FirstSource = 4
  /\ options.accessToken = <<"shpat_cli">> /\ options.domain = <<"cli.myshopify.com">>
  /\ environ.SHOPIFY_ACCESS_TOKEN = <<"shpat_env">> /\ environ.MYSHOPIFY_DOMAIN = <<"">>
  /\ DOMAIN stores = {DefaultAlias}
  /\ defaultStoreAlias = <<DefaultAlias>>

\* C14: with no config path and no multi-store variable, a legacy pair whose
\* two values are non-empty and not "undefined" registers exactly the store
\* "default", with the pair's values, as the explicit default; when either
\* value is absent, empty or "undefined" nothing comes from the pair and the
\* outcome is that of the command-line flags.
C14_LegacyEnv ==
  (pc # "start" /\ FirstSource \in {0, 3, 4})
  => /\ FirstSource = 3
          => /\ ret.op = "loadConfig" /\ ret.status = "ok"
             /\ RegisteredTriples = SourceTriples(3)
             /\ defaultStoreAlias = <<DefaultAlias>>
     /\ FirstSource = 4
          => (ret.status = "ok" /\ RegisteredTriples = SourceTriples(4))
     /\ FirstSource = 0
          => (ret.status \in {ValidationError, NoConfigurationError} /\ stores = <<>>)

\* The legacy pair won over both command-line flags.
C14_Witness ==
  /\ pc = "loaded"
  /\ FirstSource = 3
  /\ environ.SHOPIFY_STORES_CONFIG = <<UndefinedTokens>>
  /\ options.accessToken # <<>> /\ options.domain # <<>>
  /\ DOMAIN stores = {DefaultAlias}
  /\ stores[DefaultAlias].domain = "env.myshopify.com"
  /\ defaultStoreAlias = <<DefaultAlias>>

\* The JSON text the first satisfied source hands to the parser (sources 1, 2).
SourceText ==
  IF FirstSource = 1 THEN files[PathResolve(options.configPath[1])]
  ELSE IF PathResolve(environ.SHOPIFY_STORES_CONFIG[1]) \in DOMAIN files
    THEN files[PathResolve(environ.SHOPIFY_STORES_CONFIG[1])]
  ELSE environ.SHOPIFY_STORES_CONFIG[1]

\* The first satisfied source is a JSON text that parses and fits the schema.
LoadsValidDoc ==
  /\ FirstSource \in {1, 2}
  /\ FirstSource = 1 => PathResolve(options.configPath[1]) \in DOMAIN files
  /\ JSONparse(SourceText).status = "ok"
  /\ SchemaIssues(JSONparse(SourceText).value) = {}

\* The document of that text.
LoadedDoc == JSONparse(SourceText).value

\* C15: after loading a well-formed configuration whose defaultStore names one
\* of its stores, size is the number of entries of stores, hasStore holds for
\* every entry's alias and getDefaultAlias() is the lowercased defaultStore.
C15_WellFormedLoad ==
  (/\ pc # "start"
   /\ LoadsValidDoc
   /\ LoadedDoc.defaultStore # <<>>
   /\ \E i \in DOMAIN LoadedDoc.stores[1] :
        LoadedDoc.stores[1][i].alias = LoadedDoc.defaultStore[1])
  => /\ ret.op = "loadConfig" /\ ret.status = "ok"
     /\ size = Len(LoadedDoc.stores[1])
     /\ \A i \in DOMAIN LoadedDoc.stores[1] : hasStore(LoadedDoc.stores[1][i].alias)
     /\ getDefaultAlias = <<ToLowerCase(LoadedDoc.defaultStore[1])>>

\* The first satisfied source is a JSON source whose text can be read.
LoadsText ==
  /\ FirstSource \in {1, 2}
  /\ FirstSource = 1 => PathResolve(options.configPath[1]) \in DOMAIN files
  /\ SourceText # Unreadable

\* The required fields that a store object leaves missing or empty.
MissingFields(config) ==
  { f \in {"domain", "accessToken"} : config[f] \in { <<>>, <<"">> } }

\* The field paths of a document that break the schema: "stores" when it is
\* missing, else every missing or empty required field of every store object.
ViolatingPaths(doc) ==
  IF doc.stores = <<>> THEN { <<"stores">> }
  ELSE UNION { { <<"stores", doc.stores[1][i].alias, f>> :
                   f \in MissingFields(doc.stores[1][i].config) } :
               i \in DOMAIN doc.stores[1] }

\* C16: a text that is no JSON makes the load fail with ParseError; a JSON
\* document that breaks the schema makes it fail with SchemaError reporting
\* every violating field path; either way no store has been registered.
C16_JsonFailureKinds ==
  (pc # "start" /\ LoadsText)
  => /\ JSONparse(SourceText).status # "ok"
          => (ret.op = "loadConfig" /\ ret.status = ParseError /\ stores = <<>>)
     /\ (/\ JSONparse(SourceText).status = "ok"
         /\ ViolatingPaths(JSONparse(SourceText).value) # {})
          => /\ ret.op = "loadConfig" /\ ret.status = SchemaError
             /\ ret.paths = ViolatingPaths(JSONparse(SourceText).value)
             /\ stores = <<>>

\* A document with two violating fields in one store was rejected with both.
C16_Witness ==
  /\ pc = "exited"
  /\ LoadsText
  /\ SourceText = JsonText("invalid")
  /\ ret.status = SchemaError
  /\ ret.paths = { <<"stores", <<"a">>, "domain">>, <<"stores", <<"a">>, "accessToken">> }
  /\ stores = <<>>

\* C17: loading a structurally valid configuration whose stores mapping is
\* empty, with or without defaultStore, from the file or from the variable,
\* fails with EmptyConfigError.
C17_EmptyConfig ==
  (pc # "start" /\ LoadsValidDoc /\ LoadedDoc.stores[1] = <<>>)
  => (ret.op = "loadConfig" /\ ret.status = EmptyConfigError)

\* C18: with no config path, no multi-store variable, no complete legacy pair
\* and neither flag, loadConfig fails with the no-configuration error and the
\* registry stays empty.
C18_NoConfiguration ==
  (/\ pc # "start"
   /\ FirstSource = 0
   /\ options.accessToken = <<>> /\ options.domain = <<>>)
  => /\ ret.op = "loadConfig" /\ ret.status = NoConfigurationError
     /\ stores = <<>> /\ clients = <<>> /\ defaultStoreAlias = <<>>

\* Nothing but an "undefined" variable and half a legacy pair was there.
C18_Witness ==
  /\ pc = "exited"
  /\ options = [configPath |-> <<>>, accessToken |-> <<>>, domain |-> <<>>]
  /\ environ.SHOPIFY_STORES_CONFIG = <<UndefinedTokens>>
  /\ environ.SHOPIFY_ACCESS_TOKEN = <<"shpat_env">>
  /\ environ.MYSHOPIFY_DOMAIN = <<"">>
  /\ ret.status = NoConfigurationError
  /\ stores = <<>>

\* C19: the tools are registered and the transport is connected only when
\* loadConfig has returned normally; when it has failed, the process has
\* reported the error and exited with a non-zero code, and neither the
\* registration of the tools nor the connection can take place any more.
C19_StartupOrdering ==
  /\ pc \in {"registered", "connected"} => (ret.op = "loadConfig" /\ ret.status = "ok")
  /\ (ret.op = "loadConfig" /\ ret.status # "ok")
       => /\ pc = "exited"
          /\ ret.exitCode # 0
          /\ ~ENABLED RegisterTools
          /\ ~ENABLED Connect

\* The transport is connected after a load that registered stores.
C19_Witness ==
  /\ pc = "connected"
  /\ ret.op = "loadConfig" /\ ret.status = "ok"
  /\ DOMAIN stores = { <<"a">>, <<"a", "b">> }

\* ================================================================== tool handlers
\* Number of tool invocations the model lets clients of the server make.
MaxHandlers == 2

\* The invocations.
HandlerIds == 1..MaxHandlers

\* The failure of the outbound request.
RequestError == "RequestError"

\* execute(input) asking the registry for the store object of the default store
HandlerStart_DefaultInfo(h, storeAlias) ==
  /\ pc = "connected"
  /\ handlers[h].pc = "idle"
  /\ LET out == getClientOutcome(storeAlias)
         info == getStoreInfo(<<>>)
     IN /\ clients' = out.clients
        /\ nextClient' = IF out.status = "ok" /\ out.value.id > nextClient
                           THEN out.value.id ELSE nextClient
        /\ handlers' =
             [handlers EXCEPT ![h] =
                IF out.status # "ok" THEN [pc |-> "failed", error |-> out.status]
                ELSE IF info.status # "ok" THEN [pc |-> "failed", error |-> info.status]
                ELSE [pc |-> "awaiting", input |-> storeAlias, key |-> out.key,
                      client |-> out.value, store |-> info.value]]
  /\ UNCHANGED <<stores, defaultStoreAlias, ret, options, environ, files, pc>>
  /\ UNCHANGED histVars

\* execute(input) up to its await: getClient(storeAlias), then
\* getStoreInfo(storeAlias), then client.request(..) is issued. A throw of
\* either registry call ends the invocation in the catch block.
HandlerStart(h, storeAlias) ==
  /\ pc = "connected"
  /\ handlers[h].pc = "idle"
  /\ LET out == getClientOutcome(storeAlias)
         info == getStoreInfo(storeAlias)
     IN /\ clients' = out.clients
        /\ nextClient' = IF out.status = "ok" /\ out.value.id > nextClient
                           THEN out.value.id ELSE nextClient
        /\ handlers' =
             [handlers EXCEPT ![h] =
                IF out.status # "ok" THEN [pc |-> "failed", error |-> out.status]
                ELSE IF info.status # "ok" THEN [pc |-> "failed", error |-> info.status]
                ELSE [pc |-> "awaiting", input |-> storeAlias, key |-> out.key,
                      client |-> out.value, store |-> info.value]]
  /\ UNCHANGED <<stores, defaultStoreAlias, ret, options, environ, files, pc>>
  /\ UNCHANGED histVars

\* The awaited request settles: the invocation returns its result with the
\* store object, or the rejection is rethrown from the catch block.
HandlerResume(h) ==
  /\ handlers[h].pc = "awaiting"
  /\ \E fulfilled \in BOOLEAN :
       handlers' =
         [handlers EXCEPT ![h] =
            IF fulfilled
              THEN [handlers[h] EXCEPT !.pc = "done"]
              ELSE [pc |-> "failed", error |-> RequestError]]
  /\ UNCHANGED <<stores, clients, defaultStoreAlias, nextClient, ret>>
  /\ UNCHANGED <<options, environ, files, pc>>
  /\ UNCHANGED histVars

\* Any invocation starts, with any storeAlias argument or none.
StartHandler == \E h \in HandlerIds, storeAlias \in AliasArgs : HandlerStart(h, storeAlias)

\* Any pending request settles.
ResumeHandler == \E h \in HandlerIds : HandlerResume(h)

\* The documents the served configurations come from.
ServedDocs == {"two", "one", "collide", "blank", "dangling"}

\* A process started with --config on one of these documents, no invocation yet.
InitServe ==
  /\ stores = <<>>
  /\ clients = <<>>
  /\ defaultStoreAlias = <<>>
  /\ nextClient = 0
  /\ ret = [op |-> "new", status |-> "ok"]
  /\ lastResolved = [k \in Keys |-> 0]
  /\ lastForArg = [k \in Keys |-> 0]
  /\ staleArg = {}
  /\ options = [configPath |-> <<ConfPath>>, accessToken |-> <<>>, domain |-> <<>>]
  /\ environ = [SHOPIFY_STORES_CONFIG |-> <<>>, SHOPIFY_ACCESS_TOKEN |-> <<>>,
                MYSHOPIFY_DOMAIN |-> <<>>]
  /\ \E n \in ServedDocs : files = [p \in {PathResolve(ConfPath)} |-> JsonText(n)]
  /\ pc = "start"
  /\ handlers = [h \in HandlerIds |-> [pc |-> "idle"]]

NextServe == LoadConfig \/ RegisterTools \/ Connect \/ StartHandler \/ ResumeHandler

SpecServe == InitServe /\ [][NextServe]_vars

\* ------------------------------------------------------------------ the handlers' claim
\* The invocations that hold a client.
Holding == { h \in DOMAIN handlers : handlers[h].pc \in {"awaiting", "done"} }

\* C20: in every state of the server under any interleaving of invocations,
\* the cache holds only clients of registered stores, each built from the
\* stored configuration, the default names a registered store, two
\* invocations that resolved the same key hold the same client object, and
\* the registry has constructed exactly one client per cached key.
C20_ConcurrentHandlers ==
  /\ DOMAIN clients \subseteq DOMAIN stores
  /\ \A k \in DOMAIN clients : BoundTo(clients[k], stores[k])
  /\ defaultStoreAlias # <<>> => defaultStoreAlias[1] \in DOMAIN stores
  /\ \A h \in Holding :
       /\ handlers[h].key \in DOMAIN clients
       /\ handlers[h].client = clients[handlers[h].key]
  /\ \A h1 \in Holding, h2 \in Holding :
       handlers[h1].key = handlers[h2].key => handlers[h1].client = handlers[h2].client
  /\ nextClient = Cardinality(DOMAIN clients)

\* Two invocations are suspended at their requests on the same store, one
\* reached through the default and one by name, while two stores are registered.
C20_Witness ==
  /\ Cardinality(DOMAIN stores) = 2
  /\ \E h1 \in Holding, h2 \in Holding :
       /\ h1 # h2
       /\ handlers[h1].pc = "awaiting" /\ handlers[h2].pc = "awaiting"
       /\ handlers[h1].key = handlers[h2].key
       /\ handlers[h1].input = <<>> /\ handlers[h2].input = << <<"A", "b">> >>
       /\ handlers[h1].client = handlers[h2].client

\* C21: the store object of every successful response names the registry
\* entry whose client sent the request: its alias is the key the client is
\* cached under, its domain is that entry's domain, and the client's URL and
\* token are built from that entry.
C21_ResponseStore ==
  \A h \in DOMAIN handlers :
    handlers[h].pc = "done"
    => /\ handlers[h].store.alias = handlers[h].key
       /\ handlers[h].key \in DOMAIN stores
       /\ handlers[h].store.domain = stores[handlers[h].key].domain
       /\ BoundTo(handlers[h].client, stores[handlers[h].key])

\* A response for an upper-case storeAlias that is not the default store.
C21_Witness ==
  \E h \in DOMAIN handlers :
    /\ handlers[h].pc = "done"
    /\ handlers[h].input = << <<"A">> >>
    /\ defaultStoreAlias = << <<"a", "b">> >>
    /\ handlers[h].store = [alias |-> <<"a">>, domain |-> "d1.myshopify.com"]

\* ================================================================== further registry claims
\* C22 as stated: register(alias, cfg) never fails, and afterwards the entry
\* under the lowercased alias has cfg's domain and token and cfg's apiVersion
\* when one is supplied, the fixed default otherwise.
C22_RegisterWins ==
  [][\A a \in Aliases, c \in StoreConfigs :
       register(a, c) =>
         /\ ret'.status = "ok"
         /\ ToLowerCase(a) \in DOMAIN stores'
         /\ stores'[ToLowerCase(a)].domain = c.domain
         /\ stores'[ToLowerCase(a)].accessToken = c.accessToken
         /\ stores'[ToLowerCase(a)].apiVersion =
              IF c.apiVersion # <<>> THEN c.apiVersion[1] ELSE DEFAULT_API_VERSION]_vars

\* C22 amended: register(alias, cfg) never fails, and afterwards the entry
\* under the lowercased alias has cfg's domain and token and cfg's apiVersion
\* when a non-empty one is supplied, the fixed default when it is absent or
\* empty; no stored configuration has an unset or empty apiVersion.
C22_RegisterWinsNonEmpty ==
  [][\A a \in Aliases, c \in StoreConfigs :
       register(a, c) =>
         /\ ret'.status = "ok"
         /\ ToLowerCase(a) \in DOMAIN stores'
         /\ stores'[ToLowerCase(a)].domain = c.domain
         /\ stores'[ToLowerCase(a)].accessToken = c.accessToken
         /\ stores'[ToLowerCase(a)].apiVersion =
              IF c.apiVersion \notin { <<>>, <<"">> }
                THEN c.apiVersion[1] ELSE DEFAULT_API_VERSION
         /\ \A k \in DOMAIN stores' : stores'[k].apiVersion # ""]_vars

\* A configuration with an empty apiVersion was registered over another one
\* and is stored with the default.
C22_Witness ==
  /\ ret.op = "register"
  /\ \E k \in DOMAIN stores :
       /\ stores[k].domain = "d1.myshopify.com" /\ stores[k].accessToken = "shpat_2"
       /\ stores[k].apiVersion = DEFAULT_API_VERSION
  /\ \E k \in DOMAIN stores : stores[k].apiVersion = "2025-01"

\* C23: in every state of the process every registered store has a non-empty
\* domain and a non-empty access token.
C23_StoreConfigInvariant ==
  \A k \in DOMAIN stores : stores[k].domain # "" /\ stores[k].accessToken # ""

\* An empty legacy domain was passed over and the store came from the flags.
C23_Witness ==
  /\ pc = "registered"
  /\ environ.SHOPIFY_ACCESS_TOKEN = <<"shpat_env">>
  /\ environ.MYSHOPIFY_DOMAIN = <<"">>
  /\ environ.SHOPIFY_STORES_CONFIG = <<>>
  /\ options.configPath = <<>>
  /\ DOMAIN stores = {DefaultAlias}
  /\ stores[DefaultAlias].domain = "cli.myshopify.com"

\* C24: a successful setDefault(a) makes getDefaultAlias() the lowercased a,
\* and while an explicit default is set every step other than a successful
\* setDefault, whatever it registers, leaves getDefaultAlias() at that default.
C24_ExplicitDefaultPersists ==
  [][/\ \A a \in Aliases :
          (setDefault(a) /\ ret'.status = "ok") => getDefaultAlias' = <<ToLowerCase(a)>>
     /\ (defaultStoreAlias # <<>> /\ ~(ret'.op = "setDefault" /\ ret'.status = "ok"))
          => getDefaultAlias' = defaultStoreAlias]_vars

\* ================================================================== further loader claims
\* The document names, as its defaultStore, none of its own entries.
DanglingDefault(doc) ==
  /\ doc.defaultStore # <<>>
  /\ \A i \in DOMAIN doc.stores[1] :
       ToLowerCase(doc.stores[1][i].alias) # ToLowerCase(doc.defaultStore[1])

\* C25: loading a valid JSON configuration fails with the registry's
\* NotFoundError exactly when defaultStore is present and names, compared
\* case-insensitively, no entry of stores; a defaultStore naming any entry,
\* the last one included, is applied.
C25_DefaultStoreApplied ==
  (pc # "start" /\ LoadsValidDoc)
  => /\ (ret.status = NotFoundError) <=> DanglingDefault(LoadedDoc)
     /\ (LoadedDoc.defaultStore # <<>> /\ ~DanglingDefault(LoadedDoc))
          => (ret.status = "ok"
              /\ defaultStoreAlias = <<ToLowerCase(LoadedDoc.defaultStore[1])>>)

\* The value of the multi-store variable has the shape of a path.
PathShaped(v) ==
  \/ v # <<>> /\ v[Len(v)] = ".json"
  \/ v # <<>> /\ v[1] \in {"/", "./"}

\* C26: the multi-store variable is read as a file exactly when its value is
\* path-shaped and the resolved file exists, and the stores then come from
\* that file; in every other case, a path-shaped value without file and the
\* name of an existing file without path shape included, the value itself is
\* parsed: what is no JSON fails with ParseError for the variable, never with
\* a missing-file error, and the load never goes on to the single-store sources.
C26_EnvInterpretation ==
  (pc # "start" /\ FirstSource = 2)
  => LET v == environ.SHOPIFY_STORES_CONFIG[1]
         asPath == PathShaped(v) /\ PathResolve(v) \in DOMAIN files
     IN /\ ret.op = "loadConfig"
        /\ ret.status \notin {ValidationError, NoConfigurationError}
        /\ DefaultAlias \notin DOMAIN stores
        /\ asPath
             => /\ ret.status = "ok" => RegisteredTriples = DocTriples(files[PathResolve(v)])
                /\ ret.status # "ok"
                     => ret.what \in { <<"config file: ">> \o PathResolve(v), <<"default store">> }
        /\ ~asPath
             => /\ ret.status = "ok" => RegisteredTriples = DocTriples(v)
                /\ ret.status # "ok"
                     => ret.what \in { <<"SHOPIFY_STORES_CONFIG env var">>, <<"default store">> }
                /\ JSONparse(v).status # "ok" => (ret.status = ParseError /\ stores = <<>>)

\* A path-shaped value without file was parsed as JSON and rejected, with a
\* complete legacy pair at hand.
C26_Witness ==
  /\ pc = "exited"
  /\ options.configPath = <<>>
  /\ environ.SHOPIFY_STORES_CONFIG = <<EnvPath>>
  /\ PathResolve(EnvPath) \notin DOMAIN files
  /\ HasEnvConfig
  /\ ret.status = ParseError
  /\ ret.what = <<"SHOPIFY_STORES_CONFIG env var">>

\* The keys of stores are lowercase, no two of them differ only by case, and
\* size, listAliases() and listStores() agree with them.
AliasesUnique ==
  /\ \A k \in DOMAIN stores : ToLowerCase(k) = k
  /\ \A k1 \in DOMAIN stores, k2 \in DOMAIN stores :
       ToLowerCase(k1) = ToLowerCase(k2) => k1 = k2
  /\ size = Cardinality(listAliases)
  /\ size = Cardinality(listStores)
  /\ listAliases = DOMAIN stores
  /\ \A k \in DOMAIN stores :
       \E s \in listStores : s.alias = k /\ s.domain = stores[k].domain
  /\ \A s \in listStores : s.alias \in DOMAIN stores

\* C27: in every state the keys of stores are lowercase and pairwise distinct
\* up to case, and size, listAliases() and listStores() count and report
\* exactly those keys with their current domains; the keys are the lowercased
\* aliases registered so far: register(a, ..) adds the lowercased a and no
\* other operation changes them.
C27_AliasUniqueness ==
  [][/\ AliasesUnique
     /\ AliasesUnique'
     /\ \A a \in Aliases, c \in StoreConfigs :
          register(a, c) => DOMAIN stores' = DOMAIN stores \cup {ToLowerCase(a)}
     /\ ret'.op # "register" => DOMAIN stores' = DOMAIN stores]_vars

\* Every lowercased alias of the model is registered.
C27_Witness ==
  /\ ret.op = "register"
  /\ DOMAIN stores = Keys
  /\ size = Cardinality(Keys)
  /\ Cardinality(listStores) = Cardinality(Keys)

\* C28: in every state an explicitly set default is the lowercase key of a
\* registered store, and getDefaultAlias() returns nothing or an alias for
\* which hasStore holds.
C28_DefaultValidity ==
  /\ defaultStoreAlias # <<>>
       => /\ defaultStoreAlias[1] \in DOMAIN stores
          /\ ToLowerCase(defaultStoreAlias[1]) = defaultStoreAlias[1]
  /\ getDefaultAlias # <<>> => hasStore(getDefaultAlias[1])

\* The explicit default is a two-letter alias and a register has followed.
C28_Witness ==
  /\ defaultStoreAlias = << <<"a", "b">> >>
  /\ ret.op = "register"
  /\ DOMAIN stores = Keys
  /\ getDefaultAlias = << <<"a", "b">> >>

\* C29: a loadConfig call that fails leaves stores, clients and the default
\* as they were before the call.
C29_LoadAtomicity ==
  [][(pc = "start" /\ ret'.op = "loadConfig" /\ ret'.status # "ok")
       => UNCHANGED regVars]_vars

\* ================================================================== the registry with its queries
\* A query returns: nothing of the registry is assigned.
Return(op, result) ==
  /\ ret' = [op |-> op, status |-> result.status,
             value |-> IF result.status = "ok" THEN result.value ELSE <<>>]
  /\ UNCHANGED <<stores, clients, defaultStoreAlias, nextClient>>
  /\ UNCHANGED histVars
  /\ UNCHANGED procVars

HasStore == \E alias \in Aliases : Return("hasStore", Ok(hasStore(alias)))

GetDefaultAlias == Return("getDefaultAlias", Ok(getDefaultAlias))

GetStoreInfo == \E alias \in AliasArgs : Return("getStoreInfo", getStoreInfo(alias))

ListAliases == Return("listAliases", Ok(listAliases))

ListStores == Return("listStores", Ok(listStores))

Size == Return("size", Ok(size))

\* The three changing operations, the callers keeping no record of clients.
RegisterOnly ==
  \E alias \in Aliases, config \in StoreConfigs :
    register(alias, config) /\ UNCHANGED histVars /\ UNCHANGED procVars

GetClientOnly ==
  \E alias \in AliasArgs :
    getClient(alias) /\ UNCHANGED histVars /\ UNCHANGED procVars

\* The operations that only read the registry.
Queries == {"hasStore", "getDefaultAlias", "getStoreInfo", "listAliases", "listStores", "size"}

NextFrame ==
  \/ RegisterOnly \/ SetDefault \/ GetClientOnly
  \/ HasStore \/ GetDefaultAlias \/ GetStoreInfo \/ ListAliases \/ ListStores \/ Size

SpecFrame == Init /\ [][NextFrame]_vars

\* Two maps agree on every key but k.
SameExcept(m1, m2, k) ==
  \A j \in (DOMAIN m1 \cup DOMAIN m2) \ {k} :
    j \in DOMAIN m1 /\ j \in DOMAIN m2 /\ m1[j] = m2[j]

\* C30: the queries and every failing call leave stores, clients and the
\* default as they are; a successful getClient changes at most the clients
\* entry of the resolved key; register(a, cfg) changes only the stores and
\* clients entries of the lowercased a; setDefault changes only the default.
C30_FrameConditions ==
  [][/\ ret'.op \in Queries => UNCHANGED regVars
     /\ ret'.status # "ok" => UNCHANGED regVars
     /\ (ret'.op = "getClient" /\ ret'.status = "ok")
          => /\ UNCHANGED <<stores, defaultStoreAlias>>
             /\ SameExcept(clients, clients', ret'.key)
     /\ ret'.op = "register"
          => \A a \in Aliases, c \in StoreConfigs :
               register(a, c)
                 => /\ UNCHANGED defaultStoreAlias
                    /\ SameExcept(stores, stores', ToLowerCase(a))
                    /\ SameExcept(clients, clients', ToLowerCase(a))
     /\ ret'.op = "setDefault" => UNCHANGED <<stores, clients>>]_vars

\* A store was registered again while another store's client stayed cached
\* and a default was set.
C30_Witness ==
  /\ ret.op = "register"
  /\ defaultStoreAlias # <<>>
  /\ Cardinality(DOMAIN clients) = 1
  /\ \E k \in DOMAIN clients : clients[k].id = 2
  /\ nextClient = 3

====
